---------------------------- MODULE Spec2Model ----------------------------
(***************************************************************************)
(* A model of the arbitrary-precision integer class `bigint` of            *)
(* src/bigint.hpp.  A bigint is a record [digits, is_negative]: digits is  *)
(* the std::vector<uint8_t> (least-significant digit first, index 1 is the *)
(* ones place), is_negative the sign flag.                                 *)
(*                                                                         *)
(* Operations whose outcome the C++ standard leaves open return the SET of *)
(* outcomes: a read of the uninitialized is_negative, a vector read past   *)
(* the end, the negation of the minimum integer.                           *)
(***************************************************************************)
EXTENDS Integers, Sequences, FiniteSets, TLC

VARIABLES
    a,        \* the object the member functions are called on (*this)
    b,        \* the argument `other` of the last binary call
    result,   \* the bigint returned by the last call
    flag,     \* the bool returned by the last comparison
    out,      \* the characters the last operator<< wrote
    text,     \* the std::string given to the last string constructor
    ival,     \* the int64_t given to the last integer constructor
    origin,   \* how a got its present value: default, int64, text, computed
    thrown,   \* what() of the exception the last call threw, or "none"
    op,       \* the last call
    ub,       \* the last call read past a vector's end or overflowed
    borrow,   \* the borrow left when the last subtractDigits loop ended
    before,   \* a as it was constructed
    trace     \* the modifying calls made on a since it was constructed

vars == <<a, b, result, flag, out, text, ival, origin, thrown, op, ub,
          borrow, before, trace>>

-----------------------------------------------------------------------------
(* Bounds of the model *)

\* operands of the dense arithmetic specification have |value| <= MaxVal
MaxVal == 25
\* operands of the multiplication specification have |value| <= MaxMulVal
MaxMulVal == 99
\* texts given to the string constructor have at most MaxTextLen characters
MaxTextLen == 3
\* width in bits the model gives int64_t (TLC's integers are 32-bit)
IntBits == 8
\* modifying calls followed on one object after its construction
MaxSteps == 2

(* Constants of the program *)

\* decimal base of the digit vector
Base == 10
\* number of values of a uint8_t
ByteSize == 256

Byte == 0 .. (ByteSize - 1)

IntMin == -(2 ^ (IntBits - 1))
IntMax == (2 ^ (IntBits - 1)) - 1
IntRange == IntMin .. IntMax

-----------------------------------------------------------------------------
(* Characters and strings: a std::string is a sequence of one-character   *)
(* strings.                                                                *)

DigitChars == <<"0", "1", "2", "3", "4", "5", "6", "7", "8", "9">>

\* std::isdigit
IsDigit(c) == \E d \in 1 .. Len(DigitChars) : DigitChars[d] = c

\* c - '0'
CharToDigit(c) == (CHOOSE d \in 1 .. Len(DigitChars) : DigitChars[d] = c) - 1

\* os << static_cast<int>(n): the decimal characters of a non-negative int
RECURSIVE IntToChars(_)
IntToChars(n) ==
    IF n < Base THEN <<DigitChars[n + 1]>>
    ELSE IntToChars(n \div Base) \o <<DigitChars[(n % Base) + 1]>>

-----------------------------------------------------------------------------
(* The value type, the default constructor and normalisation *)

MkBigint(d, neg) == [digits |-> d, is_negative |-> neg]

\* bigint() : digits{0}, is_negative(false)
DefaultCtor == MkBigint(<<0>>, FALSE)

\* the while loop of removeLeadingZeros
RECURSIVE PopZeros(_)
PopZeros(d) ==
    IF Len(d) > 1 /\ d[Len(d)] = 0
    THEN PopZeros(SubSeq(d, 1, Len(d) - 1))
    ELSE d

\* a plausible slip: the sign of zero is left as it was
RemoveLeadingZerosKeepSign(x) == MkBigint(PopZeros(x.digits), x.is_negative)

\* removeLeadingZeros
RemoveLeadingZeros(x) ==
    LET d == PopZeros(x.digits)
    IN  MkBigint(d, IF Len(d) = 1 /\ d[1] = 0 THEN FALSE ELSE x.is_negative)

-----------------------------------------------------------------------------
(* Constructors.  An outcome is [val, thrown, ub].                         *)

Outcome(v, t, u) == [val |-> v, thrown |-> t, ub |-> u]

\* while (value > 0) { push_back(value % 10); value /= 10; }
RECURSIVE DigitLoop(_)
DigitLoop(value) ==
    IF value > 0
    THEN <<value % Base>> \o DigitLoop(value \div Base)
    ELSE <<>>

\* the digits bigint(int64_t) pushes once value holds the magnitude
IntDigits(value) == IF value = 0 THEN <<0>> ELSE DigitLoop(value)

\* bigint(int64_t value).  is_negative is assigned only when value < 0: for
\* value >= 0 the member is read uninitialized, either boolean.  -value
\* overflows for the minimum: undefined, any integer of the width or, when
\* the build computes in a wider or unsigned register, the exact magnitude.
IntCtor(value) ==
    IF value < 0
    THEN IF value = IntMin
         THEN { Outcome(MkBigint(IntDigits(w), TRUE), "none", TRUE) :
                    w \in IntMin .. (-IntMin) }
         ELSE { Outcome(MkBigint(IntDigits(-value), TRUE), "none", FALSE) }
    ELSE { Outcome(MkBigint(IntDigits(value), neg), "none", FALSE) :
               neg \in BOOLEAN }

\* for (i = value.size(); i > start; i--): throws at the first non-digit met
\* from the right, else pushes the digit
RECURSIVE ParseLoop(_, _, _, _)
ParseLoop(value, i, start, digits) ==
    IF i > start
    THEN IF ~IsDigit(value[i])
         THEN [thrown |-> "Invalid digit in string", digits |-> digits]
         ELSE ParseLoop(value, i - 1, start,
                        Append(digits, CharToDigit(value[i])))
    ELSE [thrown |-> "none", digits |-> digits]

\* bigint(const std::string &value); on a throw no object exists (val is the
\* default value as a placeholder)
StringCtor(value) ==
    IF value = <<>>
    THEN Outcome(DefaultCtor, "Invalid input string", FALSE)
    ELSE LET neg   == (value[1] = "-")
             start == IF neg THEN 1 ELSE 0
             p     == ParseLoop(value, Len(value), start, <<>>)
         IN  IF p.thrown # "none"
             THEN Outcome(DefaultCtor, p.thrown, FALSE)
             ELSE Outcome(RemoveLeadingZeros(MkBigint(p.digits, neg)),
                          "none", FALSE)

\* operator<<: '-' if negative, then each digit as an int, most significant
\* first
RECURSIVE PrintDigits(_, _)
PrintDigits(digits, i) ==
    IF i > 0
    THEN IntToChars(digits[i]) \o PrintDigits(digits, i - 1)
    ELSE <<>>

Format(value) ==
    (IF value.is_negative THEN <<"-">> ELSE <<>>)
        \o PrintDigits(value.digits, Len(value.digits))

-----------------------------------------------------------------------------
(* Comparison *)

\* operator==
Eq(x, y) == x.is_negative = y.is_negative /\ x.digits = y.digits

\* operator!=
Ne(x, y) == ~Eq(x, y)

\* the digit loops of operator<, from the most significant digit down: the
\* first differing digit decides, "lt" when this one's digit is the smaller
RECURSIVE FirstDiff(_, _, _)
FirstDiff(xd, yd, i) ==
    IF i > 0
    THEN IF xd[i] < yd[i] THEN "lt"
         ELSE IF xd[i] > yd[i] THEN "gt"
         ELSE FirstDiff(xd, yd, i - 1)
    ELSE "eq"

\* a plausible slip: equal operands fall through to return true
LtOrEqual(x, y) ==
    IF x.is_negative /\ ~y.is_negative THEN TRUE
    ELSE IF ~x.is_negative /\ y.is_negative THEN FALSE
    ELSE IF Len(x.digits) < Len(y.digits) THEN TRUE
    ELSE IF Len(x.digits) > Len(y.digits) THEN FALSE
    ELSE IF ~x.is_negative
         THEN FirstDiff(x.digits, y.digits, Len(x.digits)) # "gt"
         ELSE FirstDiff(x.digits, y.digits, Len(x.digits)) # "lt"

\* operator<
Lt(x, y) ==
    IF x.is_negative /\ ~y.is_negative THEN TRUE
    ELSE IF ~x.is_negative /\ y.is_negative THEN FALSE
    ELSE IF Len(x.digits) < Len(y.digits) THEN TRUE
    ELSE IF Len(x.digits) > Len(y.digits) THEN FALSE
    ELSE IF ~x.is_negative
         THEN FirstDiff(x.digits, y.digits, Len(x.digits)) = "lt"
         ELSE FirstDiff(x.digits, y.digits, Len(x.digits)) = "gt"

\* operator<=
Le(x, y) == Lt(x, y) \/ Eq(x, y)

\* operator>
Gt(x, y) == ~Le(x, y)

\* operator>=
Ge(x, y) == ~Lt(x, y)

-----------------------------------------------------------------------------
(* Arithmetic.  An outcome is [val, ub, borrow]; a function whose code can *)
(* read past the end of a vector returns the set of its outcomes, the byte *)
(* read there being any byte.                                              *)

Arith(v, u, br) == [val |-> v, ub |-> u, borrow |-> br]

\* largerDigits[i], larger.digits[i]: the element, or any byte past the end
ReadAt(digits, i) == IF i <= Len(digits) THEN {digits[i]} ELSE Byte

\* the two loops and the leftover carry of addDigits, from index i on
RECURSIVE AddLoop(_, _, _, _, _, _)
AddLoop(largerDigits, smallerDigits, i, carry, acc, u) ==
    IF i <= Len(smallerDigits)
    THEN UNION { LET sum == (l + smallerDigits[i] + carry) % ByteSize
                 IN  AddLoop(largerDigits, smallerDigits, i + 1,
                             sum \div Base, Append(acc, sum % Base),
                             u \/ i > Len(largerDigits))
                 : l \in ReadAt(largerDigits, i) }
    ELSE IF i <= Len(largerDigits)
    THEN LET sum == (largerDigits[i] + carry) % ByteSize
         IN  AddLoop(largerDigits, smallerDigits, i + 1,
                     sum \div Base, Append(acc, sum % Base), u)
    ELSE { [digits |-> IF carry # 0 THEN Append(acc, carry) ELSE acc,
            ub |-> u] }

\* addDigits: the result starts as bigint(), so it is not negative
AddDigits(largerDigits, smallerDigits) ==
    { Arith(RemoveLeadingZeros(MkBigint(r.digits, FALSE)), r.ub, 0) :
          r \in AddLoop(largerDigits, smallerDigits, 1, 0, <<>>, FALSE) }

\* the two loops of subtractDigits, from index i on
RECURSIVE SubLoop(_, _, _, _, _, _)
SubLoop(larger, smaller, i, br, acc, u) ==
    IF i <= Len(smaller)
    THEN UNION { LET diff == l - smaller[i] - br
                 IN  SubLoop(larger, smaller, i + 1,
                             IF diff < 0 THEN 1 ELSE 0,
                             Append(acc, (IF diff < 0 THEN diff + Base
                                          ELSE diff) % ByteSize),
                             u \/ i > Len(larger))
                 : l \in ReadAt(larger, i) }
    ELSE IF i <= Len(larger)
    THEN LET diff == larger[i] - br
         IN  SubLoop(larger, smaller, i + 1,
                     IF diff < 0 THEN 1 ELSE 0,
                     Append(acc, (IF diff < 0 THEN diff + Base
                                  ELSE diff) % ByteSize),
                     u)
    ELSE { [digits |-> acc, ub |-> u, borrow |-> br] }

\* subtractDigits(result, larger, smaller), result having no digits and the
\* sign neg when it is called
SubtractDigits(neg, larger, smaller) ==
    { Arith(RemoveLeadingZeros(MkBigint(r.digits, neg)), r.ub, r.borrow) :
          r \in SubLoop(larger.digits, smaller.digits, 1, 0, <<>>, FALSE) }

\* unary operator-
Neg(x) == MkBigint(x.digits, ~x.is_negative)

\* the different-sign branch of operator-, shared in shape with operator+:
\* the longer vector is passed as largerDigits; the sign is set after
\* addDigits has normalised
AddBySize(x, y, neg) ==
    LET xLonger == Len(x.digits) >= Len(y.digits)
        largerDigits  == IF xLonger THEN x.digits ELSE y.digits
        smallerDigits == IF xLonger THEN y.digits ELSE x.digits
    IN  { Arith(MkBigint(r.val.digits, neg), r.ub, r.borrow) :
              r \in AddDigits(largerDigits, smallerDigits) }

\* binary operator-
Sub(x, y) ==
    IF x.is_negative = y.is_negative
    THEN IF x.is_negative
         THEN IF Le(x, y)
              THEN SubtractDigits(TRUE, x, y)
              ELSE SubtractDigits(FALSE, y, x)
         ELSE IF Ge(x, y)
              THEN SubtractDigits(x.is_negative, x, y)
              ELSE SubtractDigits(~x.is_negative, y, x)
    ELSE AddBySize(x, y, x.is_negative)

\* operator+
Add(x, y) ==
    IF x.is_negative = y.is_negative
    THEN AddBySize(x, y, x.is_negative)
    ELSE Sub(x, Neg(y))

\* the inner loop of operator* for one i, from j on, then the leftover carry
RECURSIVE MulInner(_, _, _, _, _, _)
MulInner(res, xd, yd, i, j, carry) ==
    IF j <= Len(yd)
    THEN LET multi == xd[i] * yd[j] + res[i + j - 1] + carry
         IN  MulInner([res EXCEPT ![i + j - 1] = multi % Base],
                      xd, yd, i, j + 1, multi \div Base)
    ELSE [res EXCEPT ![i + Len(yd)] = (@ + carry) % ByteSize]

\* the outer loop of operator*, from i on
RECURSIVE MulOuter(_, _, _, _)
MulOuter(res, xd, yd, i) ==
    IF i <= Len(xd)
    THEN MulOuter(MulInner(res, xd, yd, i, 1, 0), xd, yd, i + 1)
    ELSE res

\* a plausible slip: the result is returned without removeLeadingZeros
MulNotNormalized(x, y) ==
    MkBigint(MulOuter([k \in 1 .. (Len(x.digits) + Len(y.digits)) |-> 0],
                      x.digits, y.digits, 1),
             x.is_negative # y.is_negative)

\* operator*
Mul(x, y) ==
    RemoveLeadingZeros(
        MkBigint(MulOuter([k \in 1 .. (Len(x.digits) + Len(y.digits)) |-> 0],
                          x.digits, y.digits, 1),
                 x.is_negative # y.is_negative))

-----------------------------------------------------------------------------
(* Inputs *)

\* the characters texts are made of: the digits, the sign, and two others
Alphabet == { DigitChars[d] : d \in 1 .. Len(DigitChars) } \cup {"-", "+", "a"}

\* every text of at most MaxTextLen characters
Texts == UNION { [1 .. n -> Alphabet] : n \in 0 .. MaxTextLen }

\* the normalized bigint of integer value v
FromValue(v) == MkBigint(IntDigits(IF v < 0 THEN -v ELSE v), v < 0)

\* every normalized bigint with |value| <= MaxVal
Operands == { FromValue(v) : v \in (-MaxVal) .. MaxVal }

\* every normalized bigint with |value| <= MaxMulVal
MulOperands == { FromValue(v) : v \in (-MaxMulVal) .. MaxMulVal }

\* the inputs of the life-cycle specification: a few of each kind
SampleTexts ==
    { <<>>, <<"0">>, <<"-", "0">>, <<"9">>, <<"-", "1">>, <<"1", "0">>,
      <<"-", "1", "0">>, <<"1", "a">> }
SampleInts == { -10, -1, 1, 9 }
SampleOperands == { FromValue(v) : v \in {-10, -1, 0, 1} }

\* calls are followed on objects of at most MaxDigits digits
MaxDigits == 2

-----------------------------------------------------------------------------
(* The state machine: one object a, the calls made on it, what they return *)

\* what a call returns or leaves behind; the outputs it does not produce are
\* reset
Returns(name, other, r, f, w, t, u, br) ==
    /\ op' = name
    /\ b' = other
    /\ result' = r
    /\ flag' = f
    /\ out' = w
    /\ thrown' = t
    /\ ub' = u
    /\ borrow' = br

\* a call that leaves the object as it is
Kept == UNCHANGED <<a, text, ival, origin, before, trace>>

\* a call that gives the object a new value of its own making
Modified(v, name) ==
    /\ a' = v
    /\ origin' = "computed"
    /\ text' = <<>>
    /\ ival' = 0
    /\ before' = before
    /\ trace' = Append(trace, name)

\* the object exists and the model still follows it
Callable ==
    /\ ~ub
    /\ origin # "none"
    /\ Len(a.digits) <= MaxDigits

\* ... and may still be modified
Modifiable == Callable /\ Len(trace) < MaxSteps

\* no constructor has run yet: an object is constructed once
Unbuilt == op = "init" /\ origin = "none"

\* bigint a;
CtorDefault ==
    /\ Unbuilt
    /\ a' = DefaultCtor
    /\ origin' = "default"
    /\ text' = <<>>
    /\ ival' = 0
    /\ before' = DefaultCtor
    /\ trace' = <<>>
    /\ Returns("ctor_default", DefaultCtor, DefaultCtor, FALSE, <<>>, "none",
               FALSE, 0)

\* bigint a(value);
CtorInt(value) ==
    /\ Unbuilt
    /\ \E o \in IntCtor(value) :
          /\ a' = o.val
          /\ before' = o.val
          /\ Returns("ctor_int", DefaultCtor, DefaultCtor, FALSE, <<>>,
                     o.thrown, o.ub, 0)
    /\ origin' = "int64"
    /\ text' = <<>>
    /\ ival' = value
    /\ trace' = <<>>

\* bigint a(value); when the constructor throws there is no object
CtorString(value) ==
    /\ Unbuilt
    /\ LET o == StringCtor(value)
       IN  /\ a' = o.val
           /\ before' = o.val
           /\ origin' = IF o.thrown = "none" THEN "text" ELSE "none"
           /\ Returns("ctor_string", DefaultCtor, DefaultCtor, FALSE, <<>>,
                      o.thrown, o.ub, 0)
    /\ text' = value
    /\ ival' = 0
    /\ trace' = <<>>

\* os << a
CallPrint ==
    /\ Callable
    /\ Kept
    /\ Returns("print", DefaultCtor, DefaultCtor, FALSE, Format(a), "none",
               FALSE, 0)

\* -a
CallNeg ==
    /\ Callable
    /\ Kept
    /\ Returns("neg", DefaultCtor, Neg(a), FALSE, <<>>, "none", FALSE, 0)

\* a + other
CallAdd(other) ==
    /\ Callable
    /\ Kept
    /\ \E r \in Add(a, other) :
          Returns("add", other, r.val, FALSE, <<>>, "none", r.ub, r.borrow)

\* a + (-a)
CallAddNegated == CallAdd(Neg(a))

\* a - other
CallSub(other) ==
    /\ Callable
    /\ Kept
    /\ \E r \in Sub(a, other) :
          Returns("sub", other, r.val, FALSE, <<>>, "none", r.ub, r.borrow)

\* a * other
CallMul(other) ==
    /\ Callable
    /\ Kept
    /\ Returns("mul", other, Mul(a, other), FALSE, <<>>, "none", FALSE, 0)

\* a < other
CallLt(other) ==
    /\ Callable
    /\ Kept
    /\ Returns("lt", other, DefaultCtor, Lt(a, other), <<>>, "none", FALSE, 0)

\* a <= other
CallLe(other) ==
    /\ Callable
    /\ Kept
    /\ Returns("le", other, DefaultCtor, Le(a, other), <<>>, "none", FALSE, 0)

\* a > other
CallGt(other) ==
    /\ Callable
    /\ Kept
    /\ Returns("gt", other, DefaultCtor, Gt(a, other), <<>>, "none", FALSE, 0)

\* a >= other
CallGe(other) ==
    /\ Callable
    /\ Kept
    /\ Returns("ge", other, DefaultCtor, Ge(a, other), <<>>, "none", FALSE, 0)

\* a == other
CallEq(other) ==
    /\ Callable
    /\ Kept
    /\ Returns("eq", other, DefaultCtor, Eq(a, other), <<>>, "none", FALSE, 0)

\* a != other
CallNe(other) ==
    /\ Callable
    /\ Kept
    /\ Returns("ne", other, DefaultCtor, Ne(a, other), <<>>, "none", FALSE, 0)

\* a += other: *this = *this + other; return *this
CallAddAssign(other) ==
    /\ Modifiable
    /\ \E r \in Add(a, other) :
          /\ Modified(r.val, "+=")
          /\ Returns("+=", other, r.val, FALSE, <<>>, "none", r.ub, r.borrow)

\* a -= other
CallSubAssign(other) ==
    /\ Modifiable
    /\ \E r \in Sub(a, other) :
          /\ Modified(r.val, "-=")
          /\ Returns("-=", other, r.val, FALSE, <<>>, "none", r.ub, r.borrow)

\* a *= other
CallMulAssign(other) ==
    /\ Modifiable
    /\ Modified(Mul(a, other), "*=")
    /\ Returns("*=", other, Mul(a, other), FALSE, <<>>, "none", FALSE, 0)

\* ++a: *this += bigint(1); return *this
CallPreInc ==
    /\ Modifiable
    /\ \E one \in IntCtor(1) : \E r \in Add(a, one.val) :
          /\ Modified(r.val, "++a")
          /\ Returns("++a", one.val, r.val, FALSE, <<>>, "none", r.ub,
                     r.borrow)

\* a++: temp = *this; ++(*this); return temp
CallPostInc ==
    /\ Modifiable
    /\ \E one \in IntCtor(1) : \E r \in Add(a, one.val) :
          /\ Modified(r.val, "a++")
          /\ Returns("a++", one.val, a, FALSE, <<>>, "none", r.ub, r.borrow)

\* --a: *this -= bigint(1); return *this
CallPreDec ==
    /\ Modifiable
    /\ \E one \in IntCtor(1) : \E r \in Sub(a, one.val) :
          /\ Modified(r.val, "--a")
          /\ Returns("--a", one.val, r.val, FALSE, <<>>, "none", r.ub,
                     r.borrow)

\* a--: temp = *this; --(*this); return temp
CallPostDec ==
    /\ Modifiable
    /\ \E one \in IntCtor(1) : \E r \in Sub(a, one.val) :
          /\ Modified(r.val, "a--")
          /\ Returns("a--", one.val, a, FALSE, <<>>, "none", r.ub, r.borrow)

-----------------------------------------------------------------------------
(* Specifications *)

\* the state before any call: the object a holds v, the argument is other
InitObject(v, how, other) ==
    /\ a = v
    /\ b = other
    /\ result = DefaultCtor
    /\ flag = FALSE
    /\ out = <<>>
    /\ text = <<>>
    /\ ival = 0
    /\ origin = how
    /\ thrown = "none"
    /\ op = "init"
    /\ ub = FALSE
    /\ borrow = 0
    /\ before = v
    /\ trace = <<>>

\* The life cycle of one object: constructed, called, modified.  Before its
\* construction a holds a placeholder.
Init == InitObject(DefaultCtor, "none", DefaultCtor)

Next ==
    \/ CtorDefault
    \/ \E v \in SampleInts : CtorInt(v)
    \/ \E s \in SampleTexts : CtorString(s)
    \/ CallPrint
    \/ CallNeg
    \/ \E o \in SampleOperands : CallAdd(o)
    \/ \E o \in SampleOperands : CallSub(o)
    \/ \E o \in SampleOperands : CallMul(o)
    \/ \E o \in SampleOperands : CallAddAssign(o)
    \/ \E o \in SampleOperands : CallSubAssign(o)
    \/ \E o \in SampleOperands : CallMulAssign(o)
    \/ CallPreInc
    \/ CallPostInc
    \/ CallPreDec
    \/ CallPostDec

Spec == Init /\ [][Next]_vars

\* Construction and printing, over every text and every integer of the width.
NextCtor ==
    \/ CtorDefault
    \/ \E v \in IntRange : CtorInt(v)
    \/ \E s \in Texts : CtorString(s)
    \/ CallPrint

SpecCtor == Init /\ [][NextCtor]_vars

\* The binary operators and the comparisons as functions of two normalized
\* operands: every pair of operands, each operator applied to it, and each
\* operand added to its own negation.
InitArith ==
    \E x \in Operands : \E y \in Operands :
        InitObject(x, "computed", y)

NextArith ==
    \/ CallAdd(b)
    \/ CallAddNegated
    \/ CallSub(b)
    \/ CallMul(b)
    \/ CallLt(b)
    \/ CallLe(b)
    \/ CallGt(b)
    \/ CallGe(b)
    \/ CallEq(b)
    \/ CallNe(b)

SpecArith == InitArith /\ [][NextArith]_vars

\* Multiplication as a function of two normalized operands of one or two
\* digits.
InitMul ==
    \E x \in MulOperands : \E y \in MulOperands :
        InitObject(x, "computed", y)

NextMul == CallMul(b)

SpecMul == InitMul /\ [][NextMul]_vars

-----------------------------------------------------------------------------
(* What the claims speak of: the integer a bigint stands for, the data     *)
(* model's invariants, the parse grammar and the canonical text.           *)

RECURSIVE Magnitude(_)
Magnitude(d) == IF d = <<>> THEN 0 ELSE Head(d) + 10 * Magnitude(Tail(d))

Value(x) == IF x.is_negative THEN -Magnitude(x.digits) ELSE Magnitude(x.digits)

Normalized(x) ==
    /\ Len(x.digits) >= 1
    /\ \A i \in 1 .. Len(x.digits) : x.digits[i] \in 0 .. 9
    /\ Len(x.digits) > 1 => x.digits[Len(x.digits)] # 0
    /\ x.digits = <<0>> => ~x.is_negative

Abs(n) == IF n < 0 THEN -n ELSE n

\* the two operands of the last binary call are normalized
NormalizedOperands == Normalized(a) /\ Normalized(b)

\* C1: for normalized a and b, a - b is a normalized value whose integer
\* value is value(a) - value(b), whatever the signs and digit counts.
C1_SubExact ==
    (op = "sub" /\ NormalizedOperands)
        => (Normalized(result) /\ Value(result) = Value(a) - Value(b))

\* C2: for normalized a and b, a + b is a normalized value whose integer
\* value is value(a) + value(b), whatever the signs.
C2_AddExact ==
    (op = "add" /\ NormalizedOperands)
        => (Normalized(result) /\ Value(result) = Value(a) + Value(b))

\* C3: for normalized a and b, a < b returns true exactly when
\* value(a) < value(b).
C3_LtNumeric ==
    (op = "lt" /\ NormalizedOperands) => (flag = (Value(a) < Value(b)))

\* C4: every value whose magnitude is zero (digits == [0]) is not negative,
\* after any sequence of constructions and operations.
C4_NoNegativeZero ==
    /\ a.digits = <<0>> => ~a.is_negative
    /\ result.digits = <<0>> => ~result.is_negative

\* the parse grammar: an optional '-', then one or more decimal digits
Grammar(s) ==
    /\ s # <<>>
    /\ LET body == IF Head(s) = "-" THEN Tail(s) ELSE s
       IN  /\ body # <<>>
           /\ \A i \in 1 .. Len(body) :
                 body[i] \in {"0", "1", "2", "3", "4", "5", "6", "7", "8", "9"}

\* C5: construction from text throws std::invalid_argument and yields no
\* value for every text outside the grammar (empty, sign only, any non-digit
\* after the optional sign), and succeeds for the texts of the grammar.
C5_ParseRejects ==
    op = "ctor_string"
        => IF Grammar(text)
           THEN thrown = "none" /\ origin = "text"
           ELSE /\ thrown \in {"Invalid input string", "Invalid digit in string"}
                /\ origin = "none"

\* C6: for normalized a and b, a * b is a normalized value of magnitude
\* |value(a)| * |value(b)|, negative iff exactly one operand is negative and
\* the product is not zero.
C6_MulExact ==
    (op = "mul" /\ NormalizedOperands)
        => /\ Normalized(result)
           /\ Magnitude(result.digits) = Abs(Value(a)) * Abs(Value(b))
           /\ result.is_negative
                 = (a.is_negative # b.is_negative
                      /\ Value(a) # 0 /\ Value(b) # 0)

\* two operands of two digits and differing signs were multiplied, with
\* carries into a fourth digit
C6_Witness ==
    /\ op = "mul"
    /\ NormalizedOperands
    /\ Value(a) = -99
    /\ Value(b) = 98
    /\ result = MkBigint(<<2, 0, 7, 9>>, TRUE)

\* the text without its leading zeros, one digit at least
RECURSIVE StripZeroChars(_)
StripZeroChars(s) ==
    IF Len(s) > 1 /\ Head(s) = "0" THEN StripZeroChars(Tail(s)) ELSE s

\* canonical(s): leading zeros stripped, and no sign on zero
Canonical(s) ==
    LET neg  == Head(s) = "-"
        body == StripZeroChars(IF neg THEN Tail(s) ELSE s)
    IN  IF body = <<"0">> THEN <<"0">>
        ELSE IF neg THEN <<"-">> \o body ELSE body

\* C7: for every text s of the grammar, printing the value constructed from
\* s writes canonical(s).
C7_RoundTrip ==
    (op = "print" /\ origin = "text" /\ Grammar(text))
        => out = Canonical(text)

\* a negative text with a leading zero was parsed and printed
C7_Witness ==
    /\ op = "print"
    /\ origin = "text"
    /\ text = <<"-", "0", "7">>
    /\ out = <<"-", "7">>

\* C8: bigint(v) is, for every v of the integer type (0, the positive values
\* and the minimum included), a normalized value equal to v, negative iff
\* v < 0, built without a negation that overflows.
C8_IntCtorExact ==
    op = "ctor_int"
        => /\ ~ub
           /\ Normalized(a)
           /\ a.is_negative = (ival < 0)
           /\ Magnitude(a.digits) = Abs(ival)

\* C9: ++a then --a leaves a normalized a as it was; a++ and a-- return the
\* value a held and leave a changed by +1 and -1.
C9_IncDec ==
    Normalized(before)
        => /\ (op = "--a" /\ trace = <<"++a", "--a">>) => a = before
           /\ (op = "a++" /\ trace = <<"a++">>)
                 => (result = before /\ Normalized(a)
                       /\ Value(a) = Value(before) + 1)
           /\ (op = "a--" /\ trace = <<"a--">>)
                 => (result = before /\ Normalized(a)
                       /\ Value(a) = Value(before) - 1)

\* the value one, as bigint("1") constructs it
One == StringCtor(<<"1">>).val

\* C10: for every normalized a, a + zero == a, a - zero == a, a * one == a
\* and a * zero == zero, zero being bigint() and == the class's operator==.
C10_Identity ==
    Normalized(a)
        => /\ (op = "add" /\ b = DefaultCtor) => Eq(result, a)
           /\ (op = "sub" /\ b = DefaultCtor) => Eq(result, a)
           /\ (op = "mul" /\ b = One) => Eq(result, a)
           /\ (op = "mul" /\ b = DefaultCtor) => Eq(result, DefaultCtor)

\* C11: for normalized a and b, a + b == b + a and a * b == b * a under
\* operator==, both orders producing a result.
C11_Commutative ==
    NormalizedOperands
        => /\ op = "add"
                 => (~ub /\ \A r \in Add(b, a) : ~r.ub /\ Eq(result, r.val))
           /\ op = "mul" => Eq(result, Mul(b, a))

\* C12: for every normalized a, a + (-a) is the canonical zero: digits [0],
\* is_negative false.
C12_AdditiveInverse ==
    (op = "add" /\ Normalized(a) /\ b = Neg(a))
        => (~ub /\ result = MkBigint(<<0>>, FALSE))

\* a negative value of two digits was added to its negation
C12_Witness ==
    /\ op = "add"
    /\ Value(a) = -17
    /\ Normalized(a)
    /\ b = Neg(a)
    /\ result = MkBigint(<<0>>, FALSE)

ExactlyOne(p, q, r) ==
    \/ p /\ ~q /\ ~r
    \/ ~p /\ q /\ ~r
    \/ ~p /\ ~q /\ r

\* C13: for all a and b exactly one of a<b, a==b, a>b holds; a<=b iff
\* (a<b or a==b); a>=b iff not a<b; a!=b iff not a==b; a<b and b<a never
\* both hold.  Each comparison's returned flag is set against the others.
C13_ComparisonsConsistent ==
    /\ op = "lt" => /\ ExactlyOne(flag, Eq(a, b), Gt(a, b))
                    /\ ~(flag /\ Lt(b, a))
    /\ op = "eq" => ExactlyOne(Lt(a, b), flag, Gt(a, b))
    /\ op = "gt" => ExactlyOne(Lt(a, b), Eq(a, b), flag)
    /\ op = "le" => (flag = (Lt(a, b) \/ Eq(a, b)))
    /\ op = "ge" => (flag = ~Lt(a, b))
    /\ op = "ne" => (flag = ~Eq(a, b))

\* two negative values of the same digit count were compared with <
C13_Witness ==
    /\ op = "lt"
    /\ Value(a) = -17
    /\ Value(b) = -12
    /\ flag = TRUE

\* C14: in every call operator+ and operator- make to addDigits and
\* subtractDigits on normalized operands, `larger` has at least as many
\* digits as `smaller` (no read past the end: ub stays false), and the borrow
\* is 0 when the subtractDigits loop ends.
C14_MemorySafe ==
    (op \in {"add", "sub", "+=", "-="} /\ NormalizedOperands)
        => (~ub /\ borrow = 0)

=============================================================================
